---- MODULE Spec2Model ----
(***************************************************************************)
(* Model of createNonNullDirective (src/src/index.ts): the @nonNull         *)
(* directive transformer and the resolver wrapper it installs.              *)
(*                                                                          *)
(* A schema is a fixed type structure (input object types with their        *)
(* fields, one object type with its fields and arguments) plus, for every   *)
(* schema OBJECT, the resolver each object field currently holds.  mapSchema *)
(* builds a new schema object, so several schema objects with the same      *)
(* structure and different resolvers coexist.                               *)
(***************************************************************************)
EXTENDS Integers, Sequences, FiniteSets, TLC

VARIABLES
  inputTypes,    \* input type name -> sequence of its fields (declaration order)
  objectFields,  \* sequence of the object type's fields: [name, args]
  resolve,       \* resolve[s][f]: the resolver field f of schema object s holds
  outcome,       \* how the most recent directiveTransformer invocation ended
  last,          \* the resolver call the engine is handling, with its outcome
  found          \* the most recent stand-alone run of the argument loop

vars == <<inputTypes, objectFields, resolve, outcome, last, found>>

\* Number of schema objects mapSchema may build in one run.
MaxRebuilds == 2

\* opts?.directiveName ?? 'nonNull'
directiveName == "nonNull"

-----------------------------------------------------------------------------
(* GraphQL types.  A type is a named base, optionally under ONE outer        *)
(* GraphQLNonNull.  A list type is its own base ("ListInner" is [Inner]):    *)
(* the code never looks inside a list.                                       *)

Type(base, nn) == [base |-> base, nn |-> nn]

\* x instanceof GraphQLNonNull
IsNonNull(t) == t.nn

\* GraphQLNonNull.ofType
ofType(t) == [t EXCEPT !.nn = FALSE]

\* x instanceof GraphQLInputObjectType
IsInputObjectType(t) == ~t.nn /\ t.base \in DOMAIN inputTypes

InputField(name, type, directives) ==
  [name |-> name, type |-> type, directives |-> directives]

Argument(name, type) == [name |-> name, type |-> type]

ObjectField(name, args) == [name |-> name, args |-> args]

FieldNames == {objectFields[i].name : i \in DOMAIN objectFields}

FieldNamed(n) == CHOOSE f \in {objectFields[i] : i \in DOMAIN objectFields} : f.name = n

-----------------------------------------------------------------------------
(* JavaScript values handed to a resolver as field arguments.               *)

NoProps == [k \in {} |-> 0]

Undefined == [t |-> "undefined", f |-> NoProps]
Null == [t |-> "null", f |-> NoProps]
Scalar == [t |-> "scalar", f |-> NoProps]
Obj(props) == [t |-> "object", f |-> props]

\* object[key] for one key
Prop(object, key) ==
  IF object.t = "object" /\ key \in DOMAIN object.f THEN object.f[key] ELSE Undefined


\* object == null (null or undefined)
IsNullish(object) == object.t \in {"null", "undefined"}

\* lodash baseGet: walk the path while the current object is neither null nor
\* undefined; the value reached counts only if every segment was consumed.
RECURSIVE baseGet(_, _, _)
baseGet(object, path, index) ==
  IF ~IsNullish(object) /\ index < Len(path)
  THEN baseGet(Prop(object, path[index + 1]), path, index + 1)
  ELSE IF index > 0 /\ index = Len(path) THEN object ELSE Undefined

\* A get that hands back whatever value the walk stopped at.
RECURSIVE walkReached(_, _, _)
walkReached(object, path, index) ==
  IF ~IsNullish(object) /\ index < Len(path)
  THEN walkReached(Prop(object, path[index + 1]), path, index + 1)
  ELSE object

getReached(object, path) ==
  IF IsNullish(object) THEN Undefined ELSE walkReached(object, path, 0)

\* lodash get(object, path) with no default value
get(object, path) ==
  IF IsNullish(object) THEN Undefined ELSE baseGet(object, path, 0)

\* value == null
LooseNull(value) == value.t \in {"null", "undefined"}

\* value === undefined
StrictUndefined(value) == value.t = "undefined"

\* value === null
StrictNull(value) == value.t = "null"

-----------------------------------------------------------------------------
(* Input-path discovery.                                                    *)

\* field.astNode.directives.find(d => d.name.value === directiveName)
isNonNull(field) == directiveName \in field.directives

\* checkInputObject that recurses without extending the prefix.
RECURSIVE checkInputObjectSamePrefix(_, _, _)
checkInputObjectSamePrefix(inputType, prefix, i) ==
  IF i > Len(inputTypes[inputType]) THEN <<>>
  ELSE LET field == inputTypes[inputType][i]
           fieldType == IF IsNonNull(field.type) THEN ofType(field.type) ELSE field.type
           nested == IF IsInputObjectType(fieldType)
                     THEN checkInputObjectSamePrefix(fieldType.base, prefix, 1)
                     ELSE <<>>
           own == IF isNonNull(field) THEN <<Append(prefix, field.name)>> ELSE <<>>
       IN nested \o own \o checkInputObjectSamePrefix(inputType, prefix, i + 1)

\* checkInputObject(inputType, taggedInputs, prefix): the paths pushed onto
\* taggedInputs, in push order, by the loop over the fields from the i-th on.
RECURSIVE checkInputObject(_, _, _)
checkInputObject(inputType, prefix, i) ==
  IF i > Len(inputTypes[inputType]) THEN <<>>
  ELSE LET field == inputTypes[inputType][i]
           fieldType == IF IsNonNull(field.type) THEN ofType(field.type) ELSE field.type
           nested == IF IsInputObjectType(fieldType)
                     THEN checkInputObject(fieldType.base, Append(prefix, field.name), 1)
                     ELSE <<>>
           own == IF isNonNull(field) THEN <<Append(prefix, field.name)>> ELSE <<>>
       IN nested \o own \o checkInputObject(inputType, prefix, i + 1)

\* for (const arg of field.args): the paths pushed from the i-th argument on.
RECURSIVE argLoop(_, _)
argLoop(args, i) ==
  IF i > Len(args) THEN <<>>
  ELSE LET arg == args[i]
           argType == IF IsNonNull(arg.type) THEN ofType(arg.type) ELSE arg.type
           pushed == IF IsInputObjectType(argType)
                     THEN checkInputObject(argType.base, <<arg.name>>, 1)
                     ELSE <<>>
       IN pushed \o argLoop(args, i + 1)

\* Insert path x into a sequence sorted by length, after every element that
\* is not longer (the sort is stable).
RECURSIVE insertByLength(_, _)
insertByLength(sorted, x) ==
  IF sorted = <<>> THEN <<x>>
  ELSE IF Len(Head(sorted)) - Len(x) <= 0
       THEN <<Head(sorted)>> \o insertByLength(Tail(sorted), x)
       ELSE <<x>> \o sorted

RECURSIVE sortFrom(_, _, _)
sortFrom(taggedInputs, i, acc) ==
  IF i > Len(taggedInputs) THEN acc
  ELSE sortFrom(taggedInputs, i + 1, insertByLength(acc, taggedInputs[i]))

\* The paths left in discovery order.
unsorted(taggedInputs) == taggedInputs

\* taggedInputs.sort((a, b) => a.length - b.length)
sort(taggedInputs) == sortFrom(taggedInputs, 1, <<>>)

\* A wrap condition that is always met.
alwaysWrap(taggedInputs) == TRUE

\* if (taggedInputs.length > 0)
needsWrap(taggedInputs) == Len(taggedInputs) > 0

-----------------------------------------------------------------------------
(* Resolvers.  A resolver is the function the field was configured with     *)
(* (base; "unset" when none was) under the resolveFn closures stacked on it, *)
(* outermost first.  Each closure captured its own taggedInputs; its id      *)
(* tells two closures apart.                                                 *)

Resolver(base, wraps) == [base |-> base, wraps |-> wraps]

Closure(id, taggedInputs) == [id |-> id, taggedInputs |-> taggedInputs]

NoError == [type |-> "none", message |-> ""]

\* opts?.buildInputError ?? (message => new GraphQLError(message))
buildInputError(message) == [type |-> "GraphQLError", message |-> message]

\* inputPath.join('.')
RECURSIVE join(_)
join(inputPath) ==
  IF Len(inputPath) = 0 THEN ""
  ELSE IF Len(inputPath) = 1 THEN inputPath[1]
  ELSE inputPath[1] \o "." \o join(Tail(inputPath))

\* for (const inputPath of taggedInputs) { if (get(...) === null) throw ... }
\* from the i-th path on: the error thrown (if any) and the paths looked up.
RECURSIVE nullLoop(_, _, _)
nullLoop(taggedInputs, fieldArgs, i) ==
  IF i > Len(taggedInputs) THEN [thrown |-> NoError, lookups |-> <<>>]
  ELSE LET inputPath == taggedInputs[i] IN
       IF StrictNull(get(fieldArgs, inputPath))
       THEN [thrown |-> buildInputError(join(inputPath) \o " cannot be null"),
             lookups |-> <<inputPath>>]
       ELSE LET rest == nullLoop(taggedInputs, fieldArgs, i + 1)
            IN [rest EXCEPT !.lookups = <<inputPath>> \o @]

\* Invoking a field's resolver: every resolveFn on the stack runs its loop
\* and then resolve.apply(this, resolverArgs); the innermost target is the
\* configured resolver, or defaultFieldResolver when none was configured.
\* behaviour is what that target does when it is reached.
RECURSIVE invoke(_, _, _, _, _)
invoke(wraps, base, thisArg, fieldArgs, behaviour) ==
  IF wraps = <<>>
  THEN [checks |-> <<>>, thrown |-> NoError,
        delegated |-> <<[target |-> IF base = "unset" THEN "defaultFieldResolver" ELSE base,
                         this |-> thisArg, args |-> fieldArgs]>>,
        result |-> behaviour]
  ELSE LET r == nullLoop(Head(wraps).taggedInputs, fieldArgs, 1) IN
       IF r.thrown.type # "none"
       THEN [checks |-> <<r.lookups>>, thrown |-> r.thrown,
             delegated |-> <<>>, result |-> "inputError"]
       ELSE LET rest == invoke(Tail(wraps), base, thisArg, fieldArgs, behaviour)
            IN [rest EXCEPT !.checks = <<r.lookups>> \o @]

-----------------------------------------------------------------------------
(* directiveTransformer.                                                    *)

\* A field mapper that keeps every field.
keepEveryField(fieldConfig) == "keep"

\* [MapperKind.INPUT_OBJECT_FIELD](fieldConfig, fieldName, typeName)
InputObjectFieldMapper(fieldConfig) ==
  IF IsNonNull(fieldConfig.type) THEN "throw" ELSE "keep"

\* mapSchema applies the mapper to every field of every input object type of
\* the schema; a throw of the mapper leaves mapSchema.
mapSchemaThrows ==
  \E typeName \in DOMAIN inputTypes :
    \E i \in DOMAIN inputTypes[typeName] :
      InputObjectFieldMapper(inputTypes[typeName][i]) = "throw"

NoOutcome ==
  [kind |-> "none", argument |-> 0, traversed |-> 0, returned |-> 0, before |-> <<>>]

NoCall ==
  [called |-> FALSE, field |-> "", resolver |-> Resolver("unset", <<>>),
   this |-> "", args |-> Undefined, behaviour |-> "",
   checks |-> <<>>, thrown |-> NoError, delegated |-> <<>>, result |-> ""]

NoDiscovery == [done |-> FALSE, field |-> "", taggedInputs |-> <<>>]

\* The wrap loop over the fields of the traversed schema object: the resolver
\* each field holds afterwards.
wrapLoop(fields, id) ==
  [f \in FieldNames |->
     LET taggedInputs == argLoop(FieldNamed(f).args, 1) IN
     IF needsWrap(taggedInputs)
     THEN Resolver(fields[f].base, <<Closure(id, sort(taggedInputs))>> \o fields[f].wraps)
     ELSE fields[f]]

\* directiveTransformer(schema) called with `this.schema` bound to thisSchema
\* (0: `this` has no schema property).  mapSchema validates every input field
\* and returns a new schema object that holds the argument's resolvers; the
\* wrap loop then walks this.schema.getTypeMap(); the new object is returned.
directiveTransformer(schema, thisSchema) ==
  /\ ~last.called
  /\ Len(resolve) <= MaxRebuilds
  /\ IF mapSchemaThrows
     THEN /\ outcome' = [NoOutcome EXCEPT !.kind = "ConfigError", !.before = resolve]
          /\ UNCHANGED resolve
     ELSE IF thisSchema = 0
     THEN /\ outcome' = [NoOutcome EXCEPT !.kind = "TypeError", !.before = resolve]
          /\ UNCHANGED resolve
     ELSE /\ resolve' = Append([resolve EXCEPT ![thisSchema] =
                                   wrapLoop(resolve[thisSchema], Len(resolve))],
                               resolve[schema])
          /\ outcome' = [kind |-> "ok", argument |-> schema, traversed |-> thisSchema,
                         returned |-> Len(resolve) + 1, before |-> resolve]
  /\ UNCHANGED <<inputTypes, objectFields, last, found>>

Transform ==
  \E schema \in DOMAIN resolve : \E thisSchema \in {0} \cup DOMAIN resolve :
    directiveTransformer(schema, thisSchema)

-----------------------------------------------------------------------------
(* Resolver calls made by the execution engine.                             *)

InnerObjects ==
  {Obj(NoProps)} \cup {Obj([k \in {"value"} |-> v]) : v \in {Null, Scalar}}

InnerValues == {Null} \cup InnerObjects

OuterObjects ==
  UNION {
    {Obj(props) : props \in {g \in [keys -> InnerValues \cup {Scalar}] :
                       /\ "inner" \in keys => g["inner"] \in InnerValues
                       /\ "firstName" \in keys => g["firstName"] \in {Null, Scalar}}}
    : keys \in SUBSET {"inner", "firstName"}}

InputValues == {Null} \cup OuterObjects

\* The fieldArgs objects a call may carry.
FieldArgs(field) ==
  IF field.args = <<>> THEN {Obj(NoProps)}
  ELSE {Obj(NoProps)} \cup {Obj([k \in {"input"} |-> v]) : v \in InputValues}

\* field.resolve(parent, fieldArgs, context, info) with calling context
\* thisArg, on field f of schema object s.  The engine handles one call at a
\* time and the transformer does not run during a call.
Call(s, f, thisArg, fieldArgs, behaviour) ==
  /\ ~last.called
  /\ LET r == invoke(resolve[s][f].wraps, resolve[s][f].base, thisArg, fieldArgs, behaviour)
     IN last' = [called |-> TRUE, field |-> f, resolver |-> resolve[s][f],
                 this |-> thisArg, args |-> fieldArgs, behaviour |-> behaviour,
                 checks |-> r.checks, thrown |-> r.thrown, delegated |-> r.delegated,
                 result |-> r.result]
  /\ UNCHANGED <<inputTypes, objectFields, resolve, outcome, found>>

Resolve ==
  \E s \in DOMAIN resolve : \E f \in FieldNames :
    \E thisArg \in {"ctx1", "ctx2"} : \E fieldArgs \in FieldArgs(FieldNamed(f)) :
      \E behaviour \in {"returns", "throws"} :
        Call(s, f, thisArg, fieldArgs, behaviour)

\* The call has returned or thrown to the engine.
Return ==
  /\ last.called
  /\ last' = NoCall
  /\ UNCHANGED <<inputTypes, objectFields, resolve, outcome, found>>

-----------------------------------------------------------------------------
(* Schemas.                                                                 *)

TagSets == {{}, {"nonNull"}}

\* input Inner { value: String }   input Outer { inner: Inner  firstName: String }
\* type Mutation { updateUser(input: Outer!): User   me: User }
\* with every placement of "!" and of the directives on the input fields.
Schemas ==
  {[inputTypes |->
      [Inner |-> <<InputField("value", Type("String", nn1), d1)>>,
       Outer |-> <<InputField("inner", Type("Inner", nn2), d2),
                   InputField("firstName", Type("String", FALSE), d3)>>],
    objectFields |->
      <<ObjectField("updateUser", <<Argument("input", argType)>>),
        ObjectField("me", <<>>)>>]
   : nn1 \in BOOLEAN, nn2 \in BOOLEAN, d1 \in TagSets, d2 \in TagSets, d3 \in TagSets,
     argType \in {Type("Outer", TRUE)}}

Init ==
  /\ \E sch \in Schemas :
       /\ inputTypes = sch.inputTypes
       /\ objectFields = sch.objectFields
  /\ \E base \in {"unset", "updateUserResolver"} :
       resolve = <<[f \in {"updateUser", "me"} |->
                      IF f = "updateUser" THEN Resolver(base, <<>>)
                      ELSE Resolver("unset", <<>>)]>>
  /\ outcome = NoOutcome
  /\ last = NoCall
  /\ found = NoDiscovery

Next == Transform \/ Resolve \/ Return

Spec == Init /\ [][Next]_vars

-----------------------------------------------------------------------------
(* Input-path discovery on its own, over a wider family of schemas:         *)
(* input Inner { value: T1 }   input Outer { inner: T2  firstName: T3 }      *)
(* type Mutation { updateUser(input: T4, extra: T5): User   me: User }       *)

DiscoverySchemas ==
  {[inputTypes |->
      [Inner |-> <<InputField("value", t1, d1)>>,
       Outer |-> <<InputField("inner", t2, d2), InputField("firstName", t3, d3)>>],
    objectFields |->
      <<ObjectField("updateUser", <<Argument("input", t4), Argument("extra", t5)>>),
        ObjectField("me", <<>>)>>]
   : t1 \in {Type("String", FALSE), Type("String", TRUE), Type("ListString", FALSE)},
     d1 \in {{}, {"nonNull"}, {"deprecated"}},
     t2 \in {Type("Inner", FALSE), Type("Inner", TRUE), Type("ListInner", FALSE),
             Type("String", FALSE)},
     d2 \in TagSets,
     t3 \in {Type("String", FALSE), Type("ListString", TRUE)},
     d3 \in TagSets,
     t4 \in {Type("Outer", FALSE), Type("Outer", TRUE), Type("ListOuter", FALSE)},
     t5 \in {Type("Inner", FALSE), Type("Inner", TRUE), Type("String", FALSE)}}

InitDiscovery ==
  /\ \E sch \in DiscoverySchemas :
       /\ inputTypes = sch.inputTypes
       /\ objectFields = sch.objectFields
  /\ resolve = <<[f \in {"updateUser", "me"} |-> Resolver("unset", <<>>)]>>
  /\ outcome = NoOutcome
  /\ last = NoCall
  /\ found = NoDiscovery

\* const taggedInputs = []; for (const arg of field.args) { ... } for field f
Discover(f) ==
  /\ found' = [done |-> TRUE, field |-> f, taggedInputs |-> argLoop(FieldNamed(f).args, 1)]
  /\ UNCHANGED <<inputTypes, objectFields, resolve, outcome, last>>

NextDiscovery == \E f \in FieldNames : Discover(f)

SpecDiscovery == InitDiscovery /\ [][NextDiscovery]_vars

-----------------------------------------------------------------------------
(* Vocabulary of the properties, stated without the operators above.        *)

ArgNames(field) == {field.args[i].name : i \in DOMAIN field.args}

InputFieldsOf(typeName) == {inputTypes[typeName][i] : i \in DOMAIN inputTypes[typeName]}

InputFieldNames == UNION {{fld.name : fld \in InputFieldsOf(tn)} : tn \in DOMAIN inputTypes}

\* The input object type a declared type names once at most one outer
\* non-null modifier is removed; "" when it names none.
InputObjectUnder(type) == IF type.base \in DOMAIN inputTypes THEN type.base ELSE ""

\* The input object type the first k segments of path lead to from the
\* arguments of field; "" when they lead to none.
RECURSIVE ReachedType(_, _, _)
ReachedType(field, path, k) ==
  IF k = 1
  THEN IF \E a \in {field.args[i] : i \in DOMAIN field.args} : a.name = path[1]
       THEN InputObjectUnder((CHOOSE a \in {field.args[i] : i \in DOMAIN field.args} :
                                a.name = path[1]).type)
       ELSE ""
  ELSE LET owner == ReachedType(field, path, k - 1) IN
       IF owner # "" /\ \E fld \in InputFieldsOf(owner) : fld.name = path[k]
       THEN InputObjectUnder((CHOOSE fld \in InputFieldsOf(owner) : fld.name = path[k]).type)
       ELSE ""

\* path is [argument, field, ..., field] through input object types and its
\* last field carries the directive.
IsTaggedPath(field, path) ==
  /\ Len(path) >= 2
  /\ LET owner == ReachedType(field, path, Len(path) - 1) IN
       /\ owner # ""
       /\ \E fld \in InputFieldsOf(owner) :
            fld.name = path[Len(path)] /\ "nonNull" \in fld.directives

\* An acyclic chain of input object types is no longer than their number.
LongestPath == Cardinality(DOMAIN inputTypes) + 1

\* Every sequence of an argument name followed by input field names.
CandidatePaths(field) ==
  UNION {{<<a>> \o rest : a \in ArgNames(field), rest \in [1..n -> InputFieldNames]}
         : n \in 1..(LongestPath - 1)}

TaggedPaths(field) == {path \in CandidatePaths(field) : IsTaggedPath(field, path)}

\* The value found by following path through nested objects.
RECURSIVE At(_, _)
At(value, path) ==
  IF path = <<>> THEN value
  ELSE IF value.t = "object" /\ Head(path) \in DOMAIN value.f
       THEN At(value.f[Head(path)], Tail(path))
       ELSE Undefined

NullPaths(field, args) == {path \in TaggedPaths(field) : At(args, path).t = "null"}

\* Some proper ancestor segment of path holds an explicit null.
NullAncestor(args, path) ==
  \E k \in 1..(Len(path) - 1) : At(args, SubSeq(path, 1, k)).t = "null"

ExpectedMessage(path) ==
  CASE path = <<"input", "firstName">> -> "input.firstName cannot be null"
    [] path = <<"input", "inner">> -> "input.inner cannot be null"
    [] path = <<"input", "inner", "value">> -> "input.inner.value cannot be null"
    [] path = <<"extra", "value">> -> "extra.value cannot be null"
    [] OTHER -> "?"

\* The call in hand went through a resolveFn wrapper, or through the resolver
\* held by a field of the schema object the last transform walked.
CalledField == FieldNamed(last.field)

CallOnProcessedField ==
  /\ last.called
  /\ \/ last.resolver.wraps # <<>>
     \/ /\ outcome.kind = "ok"
        /\ last.resolver = resolve[outcome.traversed][last.field]

HasTaggedNonNullField ==
  \E tn \in DOMAIN inputTypes : \E fld \in InputFieldsOf(tn) :
    fld.type.nn /\ "nonNull" \in fld.directives

-----------------------------------------------------------------------------
(* Properties.                                                              *)

\* C1: a call on a field with tagged paths that the transform has processed
\* (the call goes through resolveFn, or through the resolver of a field of the
\* schema object the transform walked), made with an exact null at some tagged
\* path, raises the error buildInputError builds with the message
\* "<dotted path> cannot be null", and the original resolver is not invoked.
C1_NullAtTaggedPathRaises ==
  CallOnProcessedField =>
    LET nulls == NullPaths(CalledField, last.args) IN
      nulls # {} =>
        /\ last.thrown.type = "GraphQLError"
        /\ \E path \in nulls : last.thrown.message = ExpectedMessage(path)
        /\ last.delegated = <<>>
        /\ last.result = "inputError"

\* Scenario A: {input: {firstName: null}} on a wrapped updateUser.
C1_Witness ==
  /\ CallOnProcessedField
  /\ last.args = Obj([k \in {"input"} |-> Obj([j \in {"firstName"} |-> Null])])
  /\ last.thrown.message = "input.firstName cannot be null"
  /\ last.delegated = <<>>

\* C2: a call on a wrapped field in which no tagged path looks up to an exact
\* null raises no input error, invokes the original resolver (the default one
\* when none was configured) exactly once with the same arguments and calling
\* context, and ends as that resolver ends.
C2_NoNullDelegatesOnce ==
  (last.called /\ last.resolver.wraps # <<>> /\ NullPaths(CalledField, last.args) = {}) =>
    /\ last.thrown = NoError
    /\ Len(last.delegated) = 1
    /\ last.delegated[1].target =
         (IF last.resolver.base = "unset" THEN "defaultFieldResolver" ELSE last.resolver.base)
    /\ last.delegated[1].args = last.args
    /\ last.delegated[1].this = last.this
    /\ last.result = last.behaviour

\* Scenario D: {input: {}} with input.inner.value tagged, no resolver configured.
C2_Witness ==
  /\ last.called /\ last.resolver.wraps # <<>>
  /\ <<"input", "inner", "value">> \in TaggedPaths(CalledField)
  /\ last.args = Obj([k \in {"input"} |-> Obj(NoProps)])
  /\ Len(last.delegated) = 1
  /\ last.delegated[1].target = "defaultFieldResolver"
  /\ last.result = "throws"

\* C3 as stated: an explicit null at an ancestor segment of a tagged path
\* makes the wrapped resolver raise the input error.
C3_NullAncestorRaises ==
  (last.called /\ last.resolver.wraps # <<>>
     /\ \E path \in TaggedPaths(CalledField) : NullAncestor(last.args, path)) =>
    last.thrown.type = "GraphQLError"

\* C3 as amended: a tagged path with an explicit null at a proper ancestor
\* segment is treated like one whose ancestor is absent: the error raised, if
\* any, does not name that path, and the call raises exactly when some tagged
\* path holds null at its own final segment.
C3_NullAncestorIsMissing ==
  (last.called /\ last.resolver.wraps # <<>>) =>
    LET tagged == TaggedPaths(CalledField) IN
      /\ \A path \in tagged :
           NullAncestor(last.args, path) => last.thrown.message # ExpectedMessage(path)
      /\ (last.thrown.type = "GraphQLError")
           <=> (\E path \in tagged : At(last.args, path).t = "null")

\* {input: {inner: null}} with only input.inner.value tagged: delegated.
C3_Witness ==
  /\ last.called /\ last.resolver.wraps # <<>>
  /\ TaggedPaths(CalledField) = {<<"input", "inner", "value">>}
  /\ NullAncestor(last.args, <<"input", "inner", "value">>)
  /\ last.thrown = NoError
  /\ Len(last.delegated) = 1

\* C4: with a directive-tagged input field declared non-null, the transform
\* fails with the configuration error and no resolver has been replaced.
C4_TaggedNonNullFieldFails ==
  (HasTaggedNonNullField /\ outcome.kind # "none") =>
    /\ outcome.kind = "ConfigError"
    /\ resolve = outcome.before
    /\ \A s \in DOMAIN resolve : \A f \in FieldNames : resolve[s][f].wraps = <<>>

C4_Witness ==
  /\ HasTaggedNonNullField
  /\ outcome.kind = "ConfigError"
  /\ TaggedPaths(FieldNamed("updateUser")) # {}

\* C5: with no directive-tagged input field declared non-null, the transform
\* raises no configuration error, untagged non-null input fields included.
C5_OnlyTaggedFieldsRejected ==
  ~HasTaggedNonNullField => outcome.kind # "ConfigError"

\* C6: the transform wraps a field's resolver if and only if its tagged-path
\* set is non-empty; a field with no tagged path keeps the very resolver it
\* had (unset stays unset), in the schema walked and in the schema returned.
C6_WrapsIffTagged ==
  /\ outcome.kind \in {"ConfigError", "TypeError"} => resolve = outcome.before
  /\ outcome.kind = "ok" =>
       \A f \in FieldNames :
         LET before == outcome.before[outcome.traversed][f]
             after == resolve[outcome.traversed][f]
         IN IF TaggedPaths(FieldNamed(f)) = {}
            THEN /\ after = before
                 /\ resolve[outcome.returned][f] = outcome.before[outcome.argument][f]
            ELSE /\ after # before
                 /\ after.wraps # <<>>
                 /\ Tail(after.wraps) = before.wraps
                 /\ after.base = before.base

C6_Witness ==
  /\ outcome.kind = "ok"
  /\ TaggedPaths(FieldNamed("updateUser")) # {}
  /\ resolve[outcome.traversed]["updateUser"] # outcome.before[outcome.traversed]["updateUser"]
  /\ TaggedPaths(FieldNamed("me")) = {}
  /\ resolve[outcome.traversed]["me"] = Resolver("unset", <<>>)

\* C7: a second transform of an already processed schema object is a no-op:
\* no resolver is wrapped twice and one call runs the null check once.
C7_SecondTransformIsNoOp ==
  /\ \A s \in DOMAIN resolve : \A f \in FieldNames : Len(resolve[s][f].wraps) <= 1
  /\ last.called => Len(last.checks) <= 1

\* C8: in the schema object the transform returns, every field with a tagged
\* path holds the null-checking wrapper.
C8_ReturnedSchemaIsWrapped ==
  outcome.kind = "ok" =>
    \A f \in FieldNames :
      TaggedPaths(FieldNamed(f)) # {} => resolve[outcome.returned][f].wraps # <<>>

\* C9: the paths input-path discovery computes for a field are exactly the
\* sequences [argument, field, ..., field] that run through input object
\* types (one outer non-null removed, lists never entered) to a field that
\* carries the directive, over all arguments together, each found once.
C9_DiscoveryFindsTaggedPaths ==
  found.done =>
    /\ {found.taggedInputs[i] : i \in DOMAIN found.taggedInputs}
         = TaggedPaths(FieldNamed(found.field))
    /\ Cardinality({found.taggedInputs[i] : i \in DOMAIN found.taggedInputs})
         = Len(found.taggedInputs)

\* Both arguments contribute; a non-null intermediate field is entered and a
\* tagged list field is itself a path.
C9_Witness ==
  /\ found.done
  /\ inputTypes["Outer"][1].type = Type("Inner", TRUE)
  /\ inputTypes["Inner"][1].type = Type("ListString", FALSE)
  /\ {found.taggedInputs[i] : i \in DOMAIN found.taggedInputs}
       = {<<"input", "inner", "value">>, <<"input", "firstName">>, <<"extra", "value">>}

\* C10: each wrapper looks its tagged paths up in ascending order of length,
\* every shorter tagged path before any longer one, so the error raised names
\* a shortest path among those that hold null.
C10_ShortestNullPathFirst ==
  (last.called /\ last.resolver.wraps # <<>>) =>
    LET tagged == TaggedPaths(CalledField)
        nulls == {path \in tagged : At(last.args, path).t = "null"}
    IN /\ \A k \in DOMAIN last.checks :
            LET looked == last.checks[k] IN
              /\ \A i, j \in DOMAIN looked : i < j => Len(looked[i]) <= Len(looked[j])
              /\ \A j \in DOMAIN looked : \A path \in tagged :
                   Len(path) < Len(looked[j]) => \E i \in 1..(j - 1) : looked[i] = path
       /\ last.thrown.type = "GraphQLError" =>
            \E path \in nulls :
              /\ last.thrown.message = ExpectedMessage(path)
              /\ \A other \in nulls : Len(path) <= Len(other)

\* input.inner.value is discovered before input.firstName; both hold null.
C10_Witness ==
  /\ last.called /\ last.resolver.wraps # <<>>
  /\ {<<"input", "inner", "value">>, <<"input", "firstName">>}
       \subseteq NullPaths(CalledField, last.args)
  /\ last.thrown.message = "input.firstName cannot be null"

====
